---- MODULE Spec2Model ----
(***************************************************************************)
(* Model of the task-tracking REST service: the validation schemas         *)
(* (app/schemas.py), the tasks table (app/models.py), the repository       *)
(* (app/crud.py) and the request handlers (app/main.py).                   *)
(*                                                                         *)
(* A string is modelled by its length and the one character it repeats:    *)
(* Str(3, "a") is "aaa", Str(2, " ") is two blanks, Str(0, "a") is "".     *)
(* The store is the set of rows of the tasks table.  `last` holds the       *)
(* request served last, the store it was served on and its response;       *)
(* `open` counts the sessions opened and not closed; `run` holds the       *)
(* requests in flight in the specifications that interleave requests (in   *)
(* the others one request is served per step and `run` stays Idle).        *)
(***************************************************************************)
EXTENDS Integers, FiniteSets, Sequences, TLC

VARIABLES tasks, last, open, run

vars == <<tasks, last, open, run>>

\* ------------------------------------------------------------------ bounds
\* Largest id the engine assigns under Spec and under SpecList.
MaxId == 2
MaxListId == 4

\* ------------------------------------------------------- program constants
MinTitleLen == 1
MaxTitleLen == 200
MaxDescLen == 1000
DefaultLimit == 100

\* ------------------------------------------------------------------ values
Unset == [k |-> "unset"]
Null == [k |-> "null"]
None == [k |-> "none"]
Str(n, c) == [k |-> "str", len |-> n, ch |-> c]
True == [k |-> "bool", b |-> TRUE]
False == [k |-> "bool", b |-> FALSE]
IntV(n) == [k |-> "int", n |-> n]

IsStr(v) == v.k = "str"

\* Values a JSON body carries for each field in the model: a key left out,
\* an explicit null, and strings at both sides of each length bound.
TitleValues ==
    {Unset, Null, Str(0, "a"), Str(MinTitleLen, " "),
     Str(MaxTitleLen, "a"), Str(MaxTitleLen + 1, "a")}
DescriptionValues ==
    {Unset, Null, Str(MaxDescLen, "a"), Str(MaxDescLen + 1, "a")}
CompletedValues == {Unset, Null, True, False}

\* `id` is a key no input schema declares.
NoPayload == [title |-> Unset, description |-> Unset, completed |-> Unset, id |-> Unset]
PlainPayload == [NoPayload EXCEPT !.title = Str(MaxTitleLen, "a")]

\* Bodies sent to POST /tasks/: every title alone, every description with a
\* good title, and a body with the extra key `completed`.
CreatePayloads ==
    {[PlainPayload EXCEPT !.title = t] : t \in TitleValues}
        \cup {[PlainPayload EXCEPT !.description = d] : d \in DescriptionValues}
        \cup {[PlainPayload EXCEPT !.completed = True]}

\* Bodies sent to PUT /tasks/{id}: every subset of the three keys with a good
\* value each, every other value of each key alone, and a body with the
\* extra key `id`.
UpdatePayloads ==
    [title : {Unset, Str(MaxTitleLen, "a")},
     description : {Unset, Str(MaxDescLen, "a")},
     completed : {Unset, True},
     id : {Unset}]
        \cup {[NoPayload EXCEPT !.id = IntV(1)]}
        \cup {[NoPayload EXCEPT !.title = t] : t \in TitleValues}
        \cup {[NoPayload EXCEPT !.description = d] : d \in DescriptionValues}
        \cup {[NoPayload EXCEPT !.completed = c] : c \in CompletedValues}

TaskIds == 1 .. (MaxId + 1)

\* Requests of SpecList.
ListTaskIds == 1 .. (MaxListId + 1)
SkipValues == -1 .. (MaxListId + 1)
LimitValues == (-1 .. (MaxListId + 1)) \cup {DefaultLimit}

\* -------------------------------------------------------------- validation
\* the title bound without min_length
TitleLenOk_no_min(v) == v.len <= MaxTitleLen

\* Field(..., min_length=1, max_length=200) on a str
TitleLenOk(v) == v.len >= MinTitleLen /\ v.len <= MaxTitleLen
\* Field(None, max_length=1000) on a str
DescLenOk(v) == v.len <= MaxDescLen

\* TaskBase / TaskCreate: title: str is required, description: Optional[str]
ValidCreate(p) ==
    /\ IsStr(p.title) /\ TitleLenOk(p.title)
    /\ \/ p.description \in {Unset, Null}
       \/ IsStr(p.description) /\ DescLenOk(p.description)

\* TaskUpdate with a title that is any Optional[str]
ValidUpdate_title_unbounded(p) ==
    /\ \/ p.description \in {Unset, Null}
       \/ IsStr(p.description) /\ DescLenOk(p.description)
    /\ p.completed.k \in {"unset", "null", "bool"}

\* TaskUpdate: every field Optional with default None
ValidUpdate(p) ==
    /\ \/ p.title \in {Unset, Null}
       \/ IsStr(p.title) /\ TitleLenOk(p.title)
    /\ \/ p.description \in {Unset, Null}
       \/ IsStr(p.description) /\ DescLenOk(p.description)
    /\ p.completed.k \in {"unset", "null", "bool"}

\* task.model_dump() of a TaskCreate: title and description only, an unset
\* description dumps as its default None; extra keys were dropped.
DumpCreate(p) ==
    [title |-> p.title,
     description |-> IF p.description = Unset THEN Null ELSE p.description]

\* the supplied keys of a TaskUpdate that kept extra keys
UpdateKeys_with_extra(p) == {f \in {"title", "description", "completed", "id"} : p[f] # Unset}

\* task.model_dump(exclude_unset=True) of a TaskUpdate: the set of keys that
\* were supplied (an explicit null is a supplied key).
UpdateKeys(p) == {f \in {"title", "description", "completed"} : p[f] # Unset}

\* ------------------------------------------------------------------- store
Ids(db) == {r.id : r \in db}

\* id = Column(Integer, primary_key=True) on SQLite: the rowid, assigned as
\* one more than the largest rowid in the table, 1 for an empty table.
NextId(db) ==
    IF db = {} THEN 1
    ELSE (CHOOSE m \in Ids(db) : \A i \in Ids(db) : i <= m) + 1

\* a table whose completed column is nullable
NotNullOk_title_only(r) == r.title # Null

\* nullable=False on title and completed
NotNullOk(r) == r.title # Null /\ r.completed # Null

\* the rows by descending rowid
RECURSIVE ScanOrder_descending(_)
ScanOrder_descending(db) ==
    IF db = {} THEN <<>>
    ELSE LET r == CHOOSE x \in db : \A y \in db : x.id >= y.id
         IN <<r>> \o ScanOrder_descending(db \ {r})

\* The rows in the order of a table scan (ascending rowid).
RECURSIVE ScanOrder(_)
ScanOrder(db) ==
    IF db = {} THEN <<>>
    ELSE LET r == CHOOSE x \in db : \A y \in db : x.id <= y.id
         IN <<r>> \o ScanOrder(db \ {r})

\* -------------------------------------------------------------- repository
\* Each operation yields the store after it, the value returned (None for
\* absent), what became of db.commit() ("none": not called, "done",
\* "failed": the engine refused the flush and the transaction was rolled
\* back) and whether the operation raised.
\* create taking `completed` from the body when the body carries it
create_honours_completed(db, task) ==
    LET data == DumpCreate(task)
        db_task == [id |-> NextId(db), title |-> data.title,
                    description |-> data.description,
                    completed |-> IF task.completed = Unset THEN False ELSE task.completed]
    IN [db |-> db \cup {db_task}, ret |-> db_task, commit |-> "done", raised |-> FALSE]

create(db, task) ==
    LET data == DumpCreate(task)
        db_task == [id |-> NextId(db), title |-> data.title,
                    description |-> data.description, completed |-> False]
    IN [db |-> db \cup {db_task}, ret |-> db_task, commit |-> "done", raised |-> FALSE]

\* get_by_id without its filter: the first row of the table
get_by_id_unfiltered(db, task_id) ==
    IF db # {} THEN ScanOrder(db)[1] ELSE None

get_by_id(db, task_id) ==
    IF \E r \in db : r.id = task_id
    THEN CHOOSE r \in db : r.id = task_id
    ELSE None

\* get_all that takes a limit of 0 for no limit
get_all_zero_unlimited(db, skip, limit) ==
    LET rows == ScanOrder(db)
        off == IF skip < 0 THEN 0 ELSE skip
        rest == IF off >= Len(rows) THEN <<>> ELSE SubSeq(rows, off + 1, Len(rows))
    IN IF limit <= 0 \/ limit >= Len(rest) THEN rest ELSE SubSeq(rest, 1, limit)

\* OFFSET skip LIMIT limit over the scan; a negative LIMIT is no limit and
\* a negative OFFSET is 0 on SQLite.
get_all(db, skip, limit) ==
    LET rows == ScanOrder(db)
        off == IF skip < 0 THEN 0 ELSE skip
        rest == IF off >= Len(rows) THEN <<>> ELSE SubSeq(rows, off + 1, Len(rows))
    IN IF limit < 0 \/ limit >= Len(rest) THEN rest ELSE SubSeq(rest, 1, limit)

\* update that inserts the supplied fields as a new row when the id is
\* missing
update_upsert(db, task_id, task) ==
    LET new == [id |-> task_id, title |-> task.title, description |-> Null,
                completed |-> False]
    IN IF (\E r \in db : r.id = task_id) \/ ~IsStr(task.title)
       THEN [db |-> db, ret |-> None, commit |-> "none", raised |-> FALSE]
       ELSE [db |-> db \cup {new}, ret |-> new, commit |-> "done", raised |-> FALSE]

update(db, task_id, task) ==
    LET db_task == get_by_id(db, task_id)
    IN IF db_task = None
       THEN [db |-> db, ret |-> None, commit |-> "none", raised |-> FALSE]
       ELSE LET keys == UpdateKeys(task)
                new == [id |-> IF "id" \in keys THEN task.id.n ELSE db_task.id,
                        title |-> IF "title" \in keys
                                  THEN task.title
                                  ELSE db_task.title,
                        description |-> IF "description" \in keys
                                        THEN task.description
                                        ELSE db_task.description,
                        completed |-> IF "completed" \in keys
                                      THEN task.completed
                                      ELSE db_task.completed]
            IN IF NotNullOk(new)
               THEN [db |-> (db \ {db_task}) \cup {new}, ret |-> new,
                     commit |-> "done", raised |-> FALSE]
               ELSE [db |-> db, ret |-> None, commit |-> "failed", raised |-> TRUE]

\* delete that returns the row found without removing it
delete_not_flushed(db, task_id) ==
    [db |-> db, ret |-> get_by_id(db, task_id),
     commit |-> IF get_by_id(db, task_id) = None THEN "none" ELSE "done", raised |-> FALSE]

delete(db, task_id) ==
    LET db_task == get_by_id(db, task_id)
    IN IF db_task = None
       THEN [db |-> db, ret |-> None, commit |-> "none", raised |-> FALSE]
       ELSE [db |-> db \ {db_task}, ret |-> db_task, commit |-> "done", raised |-> FALSE]

count(db) == Cardinality(db)

\* ---------------------------------------------------------------- requests
\* `fault` names the point at which the engine fails while the request is
\* served ("none": it does not).
Request(op, task_id, skip, limit, payload) ==
    [op |-> op, task_id |-> task_id, skip |-> skip, limit |-> limit, payload |-> payload,
     fault |-> "none"]

\* What `last` records: the request, the store before it, the status code,
\* the response body, whether a repository operation was called, and what
\* became of the commit.
Response(req, before, status, body, repo, commit) ==
    [op |-> req.op, task_id |-> req.task_id, skip |-> req.skip, limit |-> req.limit,
     payload |-> req.payload, fault |-> req.fault, before |-> before,
     status |-> status, body |-> body, repo |-> repo, commit |-> commit]

\* No request in flight.
Idle == [k |-> "idle"]

\* get_db around a handler: SessionLocal(), then db.close() in the finally
\* block on every way out of the request.
get_db(o) == (o + 1) - 1

Init ==
    /\ tasks = {}
    /\ last = Response(Request("none", 0, 0, 0, NoPayload), {}, 0, None, FALSE, "none")
    /\ open = 0
    /\ run = Idle

\* a handler that catches the engine's error and answers as for None
TaskResponse_swallow(req, before, r, okStatus) ==
    IF r.raised \/ r.ret = None THEN Response(req, before, 404, None, TRUE, r.commit)
    ELSE Response(req, before, okStatus, r.ret, TRUE, r.commit)

\* A handler that returns the repository's row, raises HTTPException(404)
\* on None, and lets an engine error through as a server error.
TaskResponse(req, before, r, okStatus) ==
    IF r.raised THEN Response(req, before, 500, None, TRUE, r.commit)
    ELSE IF r.ret = None THEN Response(req, before, 404, None, TRUE, r.commit)
    ELSE Response(req, before, okStatus, r.ret, TRUE, r.commit)

\* the summary with the completed filter compared to None
Statistics_not_null(db) ==
    LET total == count(db)
        completed == Cardinality({r \in db : r.completed # Null})
    IN [total |-> total, completed |-> completed, pending |-> total - completed]

\* total, completed and pending of GET /tasks/stats/summary
Statistics(db) ==
    LET total == count(db)
        completed == Cardinality({r \in db : r.completed = True})
    IN [total |-> total, completed |-> completed, pending |-> total - completed]

\* A statistics request in flight lives through the commit that leaves the
\* store as db: the summary of db joins the summaries true during it.  A
\* record of the ids in use notes the ids that db no longer holds.
Observed(r, db) ==
    IF r.k = "stats" THEN [r EXCEPT !.seen = @ \cup {Statistics(db)}]
    ELSE IF r.k = "ids"
    THEN [r EXCEPT !.deleted = @ \cup (r.stored \ Ids(db)), !.stored = Ids(db)]
    ELSE r

\* The engine failing at `fault` during a repository operation whose
\* outcome on db without failure is r: at its first query, at the flush of
\* db.commit() (rolled back), or at db.refresh() after the commit.  A fault
\* at a statement the operation does not reach does nothing.
Faulty(r, db, fault) ==
    IF fault = "query"
    THEN [db |-> db, ret |-> None, commit |-> "none", raised |-> TRUE]
    ELSE IF fault = "commit" /\ r.commit # "none"
    THEN [db |-> db, ret |-> None, commit |-> "failed", raised |-> TRUE]
    ELSE IF fault = "refresh" /\ r.commit = "done"
    THEN [db |-> r.db, ret |-> None, commit |-> "done", raised |-> TRUE]
    ELSE r

\* POST /tasks/
add_task_on(p, fault) ==
    LET req == [Request("create", 0, 0, 0, p) EXCEPT !.fault = fault]
    IN /\ IF ~ValidCreate(p)
          THEN /\ last' = Response(req, tasks, 422, None, FALSE, "none")
               /\ UNCHANGED tasks
          ELSE LET r == Faulty(create(tasks, p), tasks, fault)
               IN /\ tasks' = r.db
                  /\ last' = TaskResponse(req, tasks, r, 201)
       /\ open' = get_db(open)
       /\ run' = Observed(run, tasks')

add_task(p) == add_task_on(p, "none")

\* GET /tasks/{task_id}
read_task(task_id) ==
    LET req == Request("read", task_id, 0, 0, NoPayload)
        r == [db |-> tasks, ret |-> get_by_id(tasks, task_id),
              commit |-> "none", raised |-> FALSE]
    IN /\ last' = TaskResponse(req, tasks, r, 200)
       /\ open' = get_db(open)
       /\ UNCHANGED <<tasks, run>>

\* GET /tasks/?skip=&limit=
read_tasks(skip, limit) ==
    LET req == Request("list", 0, skip, limit, NoPayload)
    IN /\ last' = Response(req, tasks, 200, get_all(tasks, skip, limit), TRUE, "none")
       /\ open' = get_db(open)
       /\ UNCHANGED <<tasks, run>>

\* PUT /tasks/{task_id}
update_existing_task_on(task_id, p, fault) ==
    LET req == [Request("update", task_id, 0, 0, p) EXCEPT !.fault = fault]
    IN /\ IF ~ValidUpdate(p)
          THEN /\ last' = Response(req, tasks, 422, None, FALSE, "none")
               /\ UNCHANGED tasks
          ELSE LET r == Faulty(update(tasks, task_id, p), tasks, fault)
               IN /\ tasks' = r.db
                  /\ last' = TaskResponse(req, tasks, r, 200)
       /\ open' = get_db(open)
       /\ run' = Observed(run, tasks')

update_existing_task(task_id, p) == update_existing_task_on(task_id, p, "none")

\* DELETE /tasks/{task_id}
delete_existing_task_on(task_id, fault) ==
    LET req == [Request("delete", task_id, 0, 0, NoPayload) EXCEPT !.fault = fault]
        r == Faulty(delete(tasks, task_id), tasks, fault)
    IN /\ tasks' = r.db
       /\ last' = TaskResponse(req, tasks, r, 200)
       /\ open' = get_db(open)
       /\ run' = Observed(run, tasks')

delete_existing_task(task_id) == delete_existing_task_on(task_id, "none")

\* GET /tasks/stats/summary
get_task_statistics ==
    LET req == Request("stats", 0, 0, 0, NoPayload)
    IN /\ last' = Response(req, tasks, 200, Statistics(tasks), TRUE, "none")
       /\ open' = get_db(open)
       /\ UNCHANGED <<tasks, run>>

\* GET /tasks/stats/summary, first statement: total = TaskRepository.count(db)
count_total ==
    /\ run.k # "stats"
    /\ run' = [k |-> "stats", total |-> count(tasks), seen |-> {Statistics(tasks)}]
    /\ open' = open + 1
    /\ UNCHANGED <<tasks, last>>

\* GET /tasks/stats/summary, second statement and return: the completed
\* count, pending = total - completed, and the session closed.
count_completed ==
    /\ run.k = "stats"
    /\ LET req == Request("stats", 0, 0, 0, NoPayload)
           total == run.total
           completed == Cardinality({r \in tasks : r.completed = True})
           pending == total - completed
       IN last' = Response(req, tasks, 200,
                           [total |-> total, completed |-> completed, pending |-> pending],
                           TRUE, "none")
    /\ run' = [k |-> "returned", seen |-> run.seen]
    /\ open' = open - 1
    /\ UNCHANGED tasks

\* the round trip without its try/except
check_db_connection_no_except(o, outcome) ==
    IF outcome = "session" THEN [ok |-> FALSE, open |-> o, raised |-> TRUE]
    ELSE IF outcome = "query" THEN [ok |-> FALSE, open |-> o + 1, raised |-> TRUE]
    ELSE [ok |-> TRUE, open |-> (o + 1) - 1, raised |-> FALSE]

\* check_db_connection with o sessions open: whether it returns True, the
\* sessions open after it, and whether it raises.  outcome "session":
\* SessionLocal() raises; "query": db.execute raises, and db.close() is not
\* reached; "none": the round trip succeeds.
check_db_connection(o, outcome) ==
    IF outcome = "session" THEN [ok |-> FALSE, open |-> o, raised |-> FALSE]
    ELSE IF outcome = "query" THEN [ok |-> FALSE, open |-> o + 1, raised |-> FALSE]
    ELSE [ok |-> TRUE, open |-> (o + 1) - 1, raised |-> FALSE]

AppVersion == "2.0.0"

\* GET /health
health_check(outcome) ==
    LET req == [Request("health", 0, 0, 0, NoPayload) EXCEPT !.fault = outcome]
        c == check_db_connection(open, outcome)
        db_status == IF c.ok THEN "healthy" ELSE "unhealthy"
        app_status == IF db_status = "healthy" THEN "healthy" ELSE "degraded"
    IN /\ last' = IF c.raised
                  THEN Response(req, tasks, 500, None, FALSE, "none")
                  ELSE Response(req, tasks, 200,
                                [status |-> app_status, database |-> db_status,
                                 version |-> AppVersion],
                                FALSE, "none")
       /\ open' = c.open
       /\ UNCHANGED <<tasks, run>>

\* GET /healthz
healthz ==
    /\ last' = Response(Request("healthz", 0, 0, 0, NoPayload), tasks, 200,
                        [status |-> "ok"], FALSE, "none")
    /\ UNCHANGED <<tasks, open, run>>

\* The model stops creating once the engine would assign an id above max.
IdRoom(p, max) == ValidCreate(p) => NextId(tasks) <= max

\* ---------------------------------------------------------- specifications
\* Spec: every request, with the payloads above and the default listing.
AddTask == \E p \in CreatePayloads : IdRoom(p, MaxId) /\ add_task(p)
ReadTask == \E i \in TaskIds : read_task(i)
ReadTasks == read_tasks(0, DefaultLimit)
UpdateExistingTask == \E i \in TaskIds, p \in UpdatePayloads : update_existing_task(i, p)
DeleteExistingTask == \E i \in TaskIds : delete_existing_task(i)
GetTaskStatistics == get_task_statistics

Next ==
    \/ AddTask
    \/ ReadTask
    \/ ReadTasks
    \/ UpdateExistingTask
    \/ DeleteExistingTask
    \/ GetTaskStatistics

Spec == Init /\ [][Next]_vars

\* SpecList: more rows and every skip and limit, with one create payload
\* and the completed flag as the only update.
ListAddTask == IdRoom(PlainPayload, MaxListId) /\ add_task(PlainPayload)
ListReadTasks == \E s \in SkipValues, l \in LimitValues : read_tasks(s, l)
ListUpdateTask ==
    \E i \in ListTaskIds : update_existing_task(i, [NoPayload EXCEPT !.completed = True])
ListDeleteTask == \E i \in ListTaskIds : delete_existing_task(i)

NextList ==
    \/ ListAddTask
    \/ ListReadTasks
    \/ ListUpdateTask
    \/ ListDeleteTask

SpecList == Init /\ [][NextList]_vars

\* SpecOps: the requests with the engine failing at a statement, and the two
\* health endpoints.  MaxLeaks bounds the sessions left open.
MaxLeaks == 2

OpsCreatePayloads == {PlainPayload, [NoPayload EXCEPT !.title = Str(MinTitleLen, " ")]}

OpsUpdatePayloads ==
    {NoPayload, [NoPayload EXCEPT !.completed = True], [NoPayload EXCEPT !.title = Null]}

OpsAddTask ==
    \E p \in OpsCreatePayloads, f \in {"none", "commit", "refresh"} :
        IdRoom(p, MaxId) /\ add_task_on(p, f)
OpsReadTask == \E i \in TaskIds : read_task(i)
OpsUpdateTask ==
    \E i \in TaskIds, p \in OpsUpdatePayloads, f \in {"none", "query", "commit", "refresh"} :
        update_existing_task_on(i, p, f)
OpsDeleteTask ==
    \E i \in TaskIds, f \in {"none", "query", "commit"} : delete_existing_task_on(i, f)
OpsHealthCheck ==
    \E outcome \in {"none", "session", "query"} :
        /\ outcome = "query" => open < MaxLeaks
        /\ health_check(outcome)
OpsHealthz == healthz

NextOps ==
    \/ OpsAddTask
    \/ OpsReadTask
    \/ OpsUpdateTask
    \/ OpsDeleteTask
    \/ OpsHealthCheck
    \/ OpsHealthz

SpecOps == Init /\ [][NextOps]_vars

\* SpecStats: a statistics request running its two count queries one at a
\* time while other requests commit in between.
StatsPayloads == {[NoPayload EXCEPT !.completed = c] : c \in {True, False}}

StatsAddTask == IdRoom(PlainPayload, MaxId) /\ add_task(PlainPayload)
StatsUpdateTask == \E i \in TaskIds, p \in StatsPayloads : update_existing_task(i, p)
StatsDeleteTask == \E i \in TaskIds : delete_existing_task(i)
StatsCountTotal == count_total
StatsCountCompleted == count_completed

NextStats ==
    \/ StatsAddTask
    \/ StatsUpdateTask
    \/ StatsDeleteTask
    \/ StatsCountTotal
    \/ StatsCountCompleted

SpecStats == Init /\ [][NextStats]_vars

\* SpecUpd: two requests on one stored task, A an update and B an update or
\* a delete, each running its repository statements one at a time.
Clients == {"A", "B"}

UpdPayloads ==
    [title : {Unset, Str(MinTitleLen, " "), Str(MaxTitleLen, "a")},
     description : {Unset},
     completed : {Unset, True, False},
     id : {Unset}]

\* a request that has not run its first statement
Started(op, task_id, p) ==
    [op |-> op, task_id |-> task_id, payload |-> p, pc |-> "start",
     db_task |-> None, status |-> 0, body |-> None]

\* r with request x returned: HTTP status and body
Returned(r, x, status, body) ==
    [r EXCEPT ![x].pc = "done", ![x].status = status, ![x].body = body,
              !.order = Append(@, <<x, "return">>)]

\* the response of request x as the last response
Answer(x, status, body, commit) ==
    Response(Request(run[x].op, run[x].task_id, 0, 0, run[x].payload),
             tasks, status, body, TRUE, commit)

\* a flush that inserts the row when the UPDATE matches none
flush_update_merge(db, db_task, task) ==
    LET new == [f \in DOMAIN db_task |->
                    IF f \in UpdateKeys(task) THEN task[f] ELSE db_task[f]]
    IN IF ~NotNullOk(new) THEN [db |-> db, raised |-> TRUE]
       ELSE [db |-> {r \in db : r.id # db_task.id} \cup {new}, raised |-> FALSE]

\* The setattr loop and the flush of db.commit() for the row loaded as
\* db_task: the UPDATE sets the columns whose value differs from the loaded
\* one and no statement is sent when none differs; an UPDATE that matches
\* no row raises StaleDataError, a null in a NOT NULL column IntegrityError.
flush_update(db, db_task, task) ==
    LET changed == {f \in UpdateKeys(task) : task[f] # db_task[f]}
        cur == get_by_id(db, db_task.id)
    IN IF changed = {} THEN [db |-> db, raised |-> FALSE]
       ELSE IF cur = None THEN [db |-> db, raised |-> TRUE]
       ELSE LET new == [f \in DOMAIN cur |-> IF f \in changed THEN task[f] ELSE cur[f]]
            IN IF ~NotNullOk(new) THEN [db |-> db, raised |-> TRUE]
               ELSE [db |-> (db \ {cur}) \cup {new}, raised |-> FALSE]

\* db.query(models.Task).filter(models.Task.id == task_id).first() of
\* request x, and the 404 of its handler when there is no row
first_query(x, op) ==
    /\ run.k = "upd" /\ run[x].op = op /\ run[x].pc = "start"
    /\ LET db_task == get_by_id(tasks, run[x].task_id)
       IN IF db_task = None
          THEN /\ run' = Returned(run, x, 404, None)
               /\ last' = Answer(x, 404, None, "none")
               /\ open' = get_db(open)
          ELSE /\ run' = [run EXCEPT ![x].pc = "loaded", ![x].db_task = db_task]
               /\ open' = open + 1
               /\ UNCHANGED last
    /\ UNCHANGED tasks

update_query(x) == first_query(x, "update")

\* setattr loop and db.commit() of TaskRepository.update for request x
update_commit(x) ==
    /\ run.k = "upd" /\ run[x].op = "update" /\ run[x].pc = "loaded"
    /\ LET r == flush_update(tasks, run[x].db_task, run[x].payload)
       IN IF r.raised
          THEN /\ run' = Returned(run, x, 500, None)
               /\ last' = Answer(x, 500, None, "failed")
               /\ open' = open - 1
               /\ UNCHANGED tasks
          ELSE /\ tasks' = r.db
               /\ run' = [run EXCEPT ![x].pc = "committed",
                                     !.order = Append(@, <<x, "commit">>)]
               /\ UNCHANGED <<last, open>>

\* db.refresh(db_task) and the return of request x: InvalidRequestError
\* when the row is gone
update_refresh(x) ==
    /\ run.k = "upd" /\ run[x].op = "update" /\ run[x].pc = "committed"
    /\ LET row == get_by_id(tasks, run[x].task_id)
       IN IF row = None
          THEN /\ run' = Returned(run, x, 500, None)
               /\ last' = Answer(x, 500, None, "done")
          ELSE /\ run' = Returned(run, x, 200, row)
               /\ last' = Answer(x, 200, row, "done")
    /\ open' = open - 1
    /\ UNCHANGED tasks

delete_query(x) == first_query(x, "delete")

\* db.delete(db_task), db.commit() and the return of request x
delete_commit(x) ==
    /\ run.k = "upd" /\ run[x].op = "delete" /\ run[x].pc = "loaded"
    /\ tasks' = {r \in tasks : r.id # run[x].db_task.id}
    /\ run' = Returned([run EXCEPT !.order = Append(@, <<x, "commit">>)],
                       x, 200, run[x].db_task)
    /\ last' = Answer(x, 200, run[x].db_task, "done")
    /\ open' = open - 1

InitUpd ==
    \E c \in {True, False}, pA \in UpdPayloads, opB \in {"update", "delete"}, pB \in UpdPayloads :
        LET row == [create({}, PlainPayload).ret EXCEPT !.completed = c]
        IN /\ opB = "delete" => pB = NoPayload
           /\ tasks = {row}
           /\ last = Response(Request("none", 0, 0, 0, NoPayload), {}, 0, None, FALSE, "none")
           /\ open = 0
           /\ run = [k |-> "upd", A |-> Started("update", row.id, pA),
                     B |-> Started(opB, row.id, pB), order |-> <<>>]

UpdUpdateQuery == \E x \in Clients : update_query(x)
UpdUpdateCommit == \E x \in Clients : update_commit(x)
UpdUpdateRefresh == \E x \in Clients : update_refresh(x)
UpdDeleteQuery == \E x \in Clients : delete_query(x)
UpdDeleteCommit == \E x \in Clients : delete_commit(x)

NextUpd ==
    \/ UpdUpdateQuery
    \/ UpdUpdateCommit
    \/ UpdUpdateRefresh
    \/ UpdDeleteQuery
    \/ UpdDeleteCommit

SpecUpd == InitUpd /\ [][NextUpd]_vars

\* SpecIds: creates, reads and deletes, with the ids deleted so far on record.
InitIds ==
    /\ tasks = {}
    /\ last = Response(Request("none", 0, 0, 0, NoPayload), {}, 0, None, FALSE, "none")
    /\ open = 0
    /\ run = [k |-> "ids", stored |-> {}, deleted |-> {}]

IdsAddTask == \E p \in OpsCreatePayloads : IdRoom(p, MaxId) /\ add_task(p)
IdsReadTask == \E i \in TaskIds : read_task(i)
IdsDeleteTask == \E i \in TaskIds : delete_existing_task(i)

NextIds ==
    \/ IdsAddTask
    \/ IdsReadTask
    \/ IdsDeleteTask

SpecIds == InitIds /\ [][NextIds]_vars

\* ------------------------------------------------------------------ claims
Min(a, b) == IF a < b THEN a ELSE b
Max(a, b) == IF a > b THEN a ELSE b

\* A create payload the claims call valid: a title of 1..200 characters and
\* a description left out or of at most 1000 characters.
GoodCreatePayload(p) ==
    /\ IsStr(p.title) /\ p.title.len >= 1 /\ p.title.len <= 200
    /\ p.description = Unset \/ (IsStr(p.description) /\ p.description.len <= 1000)

\* C1: a create with a valid payload answers 201 with a task that has a
\* fresh integer id, completed false, and the title and description of the
\* input (null when no description was supplied); the store gains exactly
\* that row and keeps every row it had.
C1_CreateAddsTheInput ==
    (last.op = "create" /\ GoodCreatePayload(last.payload)) =>
        /\ last.status = 201 /\ last.repo /\ last.commit = "done"
        /\ last.body # None
        /\ last.body.id \in Nat /\ last.body.id \notin Ids(last.before)
        /\ last.body.completed = False
        /\ last.body.title = last.payload.title
        /\ last.body.description =
               (IF last.payload.description = Unset THEN Null ELSE last.payload.description)
        /\ tasks = last.before \cup {last.body}
        /\ Cardinality(tasks) = Cardinality(last.before) + 1
        /\ \A r \in last.before : r \in tasks

\* A second task was created from a body without description and with the
\* extra key completed=true.
C1_Witness ==
    /\ last.op = "create" /\ last.status = 201
    /\ last.before # {}
    /\ last.payload.description = Unset
    /\ last.payload.completed = True

\* C2: an update of a stored task with a payload that passes validation
\* answers 200, overwrites exactly the supplied fields with the supplied
\* values and keeps the other fields, the id and every other row; a payload
\* with no field is accepted and changes nothing.
C2_UpdateOverwritesPresentFields ==
    (last.op = "update" /\ ValidUpdate(last.payload) /\ last.task_id \in Ids(last.before)) =>
        \E old \in last.before :
            /\ old.id = last.task_id
            /\ last.status = 200
            /\ last.body # None
            /\ last.body.id = old.id
            /\ \A f \in {"title", "description", "completed"} :
                   last.body[f] = (IF last.payload[f] = Unset THEN old[f] ELSE last.payload[f])
            /\ tasks = (last.before \ {old}) \cup {last.body}
            /\ (last.payload = NoPayload => tasks = last.before)

\* C3: update and delete of an id that is not stored return absent (404,
\* not an error), commit nothing and leave the store as it was.
C3_MissingIdIsAbsent ==
    (last.op \in {"update", "delete"} /\ last.repo /\ last.task_id \notin Ids(last.before)) =>
        /\ last.body = None
        /\ last.status = 404
        /\ last.commit = "none"
        /\ tasks = last.before

\* An update with a good title was sent for an id that is not stored while
\* another task was.
C3_Witness ==
    /\ last.op = "update" /\ last.repo
    /\ last.task_id \notin Ids(last.before)
    /\ last.before # {}
    /\ IsStr(last.payload.title)

\* C4: delete of a stored id removes that row and no other, returns the row
\* as it was before the removal, and the id then resolves to no task.
C4_DeleteRemovesExactlyTheRow ==
    (last.op = "delete" /\ last.task_id \in Ids(last.before)) =>
        \E old \in last.before :
            /\ old.id = last.task_id
            /\ last.status = 200
            /\ last.body = old
            /\ tasks = last.before \ {old}
            /\ Cardinality(tasks) = Cardinality(last.before) - 1
            /\ get_by_id(tasks, last.task_id) = None

\* One of two stored tasks was deleted.
C4_Witness ==
    /\ last.op = "delete" /\ last.status = 200
    /\ Cardinality(last.before) = 2

\* C5: right after a create, get_by_id of the returned id is the created
\* task in all four fields; the GET handler answers a stored id with its row
\* and an id that is not stored with absent (404), never with an error.
C5_GetByIdAfterCreate ==
    /\ (last.op = "create" /\ last.status = 201) =>
           /\ get_by_id(tasks, last.body.id) # None
           /\ \A f \in {"id", "title", "description", "completed"} :
                  get_by_id(tasks, last.body.id)[f] = last.body[f]
    /\ last.op = "read" =>
           IF last.task_id \in Ids(last.before)
           THEN /\ last.status = 200
                /\ last.body \in last.before
                /\ last.body.id = last.task_id
           ELSE last.status = 404 /\ last.body = None
    /\ \A i \in TaskIds : i \notin Ids(tasks) => get_by_id(tasks, i) = None

\* A task was created while a task with another title was stored.
C5_Witness ==
    /\ last.op = "create" /\ last.status = 201
    /\ \E r \in last.before : r.title # last.body.title

\* The ids of a sequence of rows.
SeqIds(rows) == {rows[k].id : k \in 1 .. Len(rows)}

\* How many stored ids of db are smaller than i.
Rank(db, i) == Cardinality({j \in Ids(db) : j < i})

C7_PageLength ==
    /\ \A s \in SkipValues, l \in LimitValues :
           (s >= 0 /\ l >= 0) =>
               Len(get_all(tasks, s, l)) = Min(l, Max(0, Cardinality(tasks) - s))
    /\ last.op = "list" =>
           /\ tasks = last.before
           /\ last.status = 200
           /\ (last.skip >= 0 /\ last.limit >= 0) =>
                  /\ Len(last.body) = Min(last.limit, Max(0, Cardinality(last.before) - last.skip))
                  /\ Len(last.body) <= last.limit

\* A listing with limit 0 of a store that holds rows.
C7_Witness ==
    /\ last.op = "list" /\ last.limit = 0 /\ last.skip = 0
    /\ Cardinality(last.before) >= 2
    /\ last.body = <<>>

\* C8: the statistics summary of every reachable store has total = the
\* number of rows, completed = the number of rows with completed true and
\* pending = total - completed = the number of rows with completed false,
\* so pending >= 0 and pending + completed = total.
C8_StatisticsConsistent ==
    /\ LET st == Statistics(tasks)
       IN /\ st.total = Cardinality(tasks)
          /\ st.total = count(tasks)
          /\ st.completed = Cardinality({r \in tasks : r.completed = True})
          /\ st.pending = Cardinality({r \in tasks : r.completed = False})
          /\ st.pending >= 0
          /\ st.pending + st.completed = st.total
    /\ last.op = "stats" =>
           /\ last.status = 200
           /\ tasks = last.before
           /\ last.body.total = Cardinality(tasks)
           /\ last.body.completed = Cardinality({r \in tasks : r.completed = True})
           /\ last.body.pending = last.body.total - last.body.completed

\* The summary of a store with one completed and one pending task.
C8_Witness ==
    /\ last.op = "stats"
    /\ last.body = [total |-> 2, completed |-> 1, pending |-> 1]

\* A create or update payload that fails validation as the claim lists it:
\* no title on create, a title of length 0 or above 200, a description
\* above 1000.
BadPayload(op, p) ==
    \/ op = "create" /\ p.title = Unset
    \/ IsStr(p.title) /\ (p.title.len = 0 \/ p.title.len > 200)
    \/ IsStr(p.description) /\ p.description.len > 1000

\* C9: a create or update request with such a payload is answered 422
\* without any repository call, and the store is the same after it.
C9_InvalidPayloadRejected ==
    (last.op \in {"create", "update"} /\ BadPayload(last.op, last.payload)) =>
        /\ last.status = 422
        /\ ~last.repo
        /\ last.commit = "none"
        /\ tasks = last.before

\* An update with an empty title was sent for a stored task.
C9_Witness ==
    /\ last.op = "update"
    /\ last.task_id \in Ids(last.before)
    /\ last.payload.title = Str(0, "a")
    /\ last.status = 422

\* C10 as stated: every stored title has 1..200 characters and is neither
\* empty nor made only of whitespace.
C10_TitleNeverBlank ==
    \A r \in tasks :
        /\ IsStr(r.title)
        /\ r.title.len >= 1 /\ r.title.len <= 200
        /\ r.title.ch # " "

\* C10 as amended: every stored title is a string of 1..200 characters.
C10_TitleLength ==
    \A r \in tasks :
        /\ IsStr(r.title)
        /\ r.title.len >= 1 /\ r.title.len <= 200

\* An accepted update stored a title of 200 characters over a title of one
\* blank.
C10_Witness ==
    /\ last.op = "update" /\ last.status = 200
    /\ last.payload.title = Str(200, "a")
    /\ \E r \in last.before : r.id = last.task_id /\ r.title = Str(1, " ")
    /\ \E r \in tasks : r.id = last.task_id /\ r.title = Str(200, "a")

\* C11: every stored task's completed is true or false, never null; an
\* update that carries completed = null leaves the store as it was.
C11_CompletedNeverNull ==
    /\ \A r \in tasks : r.completed \in {True, False}
    /\ (last.op = "update" /\ last.payload.completed = Null) => tasks = last.before

\* An update with completed = null was sent for a stored task.
C11_Witness ==
    /\ last.op = "update"
    /\ last.payload.completed = Null
    /\ last.task_id \in Ids(last.before)
    /\ last.repo

\* C12: no two stored tasks share an id, and ids do not change: an update
\* keeps the set of stored ids, returns its target's id and leaves every
\* other row as it was; a create adds one id, a delete removes its target's
\* id, and reads change nothing.
C12_IdUniqueAndStable ==
    /\ \A r1 \in tasks, r2 \in tasks : r1.id = r2.id => r1 = r2
    /\ \A r \in tasks : r.id \in Nat
    /\ last.op = "update" =>
           /\ Ids(tasks) = Ids(last.before)
           /\ \A r \in last.before : r.id # last.task_id => r \in tasks
           /\ last.status = 200 => last.body.id = last.task_id
    /\ (last.op = "create" /\ last.status = 201) =>
           /\ Ids(tasks) = Ids(last.before) \cup {last.body.id}
           /\ \A r \in last.before : r \in tasks
    /\ last.op = "delete" =>
           /\ Ids(tasks) = Ids(last.before) \ {last.task_id}
           /\ \A r \in tasks : r \in last.before
    /\ last.op \in {"read", "list", "stats"} => tasks = last.before

\* An update whose body carries the key id = 1 was accepted for task 2 while
\* task 1 was stored.
C12_Witness ==
    /\ last.op = "update" /\ last.status = 200
    /\ last.payload.id = IntV(1)
    /\ last.task_id = 2
    /\ Ids(last.before) = {1, 2}

\* C13: a value that passes validation as a field of an update payload
\* passes as the same field of a create payload: a present title is a string
\* of 1..200 characters, a present description has at most 1000 characters.
C13_UpdateBoundsAsCreate ==
    (last.op = "update" /\ last.status # 422) =>
        /\ \A f \in {"title", "description", "completed"} :
               last.payload[f] # Unset => ValidCreate([PlainPayload EXCEPT ![f] = last.payload[f]])
        /\ last.payload.title # Unset =>
               /\ IsStr(last.payload.title)
               /\ last.payload.title.len >= 1 /\ last.payload.title.len <= 200
        /\ IsStr(last.payload.description) => last.payload.description.len <= 1000

\* C14: GET, PUT and DELETE on /tasks/{id} that pass validation answer 404
\* exactly when the id is not stored and 200 with the task otherwise; POST
\* answers 201 for every valid payload; 404 never answers a payload that
\* fails validation, and 422 never answers one that passes.
C14_NotFoundOnlyForMissingId ==
    /\ (last.op \in {"read", "update", "delete"} /\ last.status # 422) =>
           /\ last.status = 404 <=> last.task_id \notin Ids(last.before)
           /\ last.task_id \in Ids(last.before) =>
                  /\ last.status = 200
                  /\ last.body # None
                  /\ last.body.id = last.task_id
    /\ (last.op = "create" /\ ValidCreate(last.payload)) => last.status = 201
    /\ (last.op = "create" /\ last.status = 404) => FALSE
    /\ (last.op = "update" /\ last.status = 404) => ValidUpdate(last.payload)
    /\ (last.op = "update" /\ last.status = 422) => ~ValidUpdate(last.payload)
    /\ (last.op = "create" /\ last.status = 422) => ~ValidCreate(last.payload)

\* C15: GET /health always answers 200 with a structured body: database
\* healthy and status healthy exactly when the round trip succeeded,
\* database unhealthy and status degraded otherwise; GET /healthz answers
\* status ok without a repository call; neither changes the store.
C15_HealthNeverRaises ==
    /\ last.op = "health" =>
           /\ last.status = 200
           /\ last.body.database = (IF last.fault = "none" THEN "healthy" ELSE "unhealthy")
           /\ last.body.status = (IF last.fault = "none" THEN "healthy" ELSE "degraded")
           /\ last.body.status = "healthy" <=> last.body.database = "healthy"
           /\ tasks = last.before
    /\ last.op = "healthz" =>
           /\ last.status = 200
           /\ last.body = [status |-> "ok"]
           /\ ~last.repo
           /\ tasks = last.before

\* A health check whose round trip failed at opening the session, with a
\* task stored.
C15_Witness ==
    /\ last.op = "health"
    /\ last.fault = "session"
    /\ last.body.status = "degraded"
    /\ tasks # {}

\* C16: between requests no session is open: every request released the
\* sessions it acquired.
C16_NoSessionLeftOpen == open = 0

\* C17: an engine error during a create, update or delete ends the request
\* as a server error with no body: never a success, never not-found; an
\* error at the first query or at the commit leaves the store as it was.
C17_EngineErrorPropagates ==
    LET reached ==
            \/ last.op = "create" /\ ValidCreate(last.payload)
            \/ /\ last.op \in {"update", "delete"}
               /\ last.status # 422
               /\ last.task_id \in Ids(last.before)
        raised ==
            \/ last.commit = "failed"
            \/ last.fault = "query" /\ last.op \in {"update", "delete"} /\ last.status # 422
            \/ last.fault = "commit" /\ reached
            \/ last.fault = "refresh" /\ reached /\ last.op # "delete"
    IN (last.op \in {"create", "update", "delete"} /\ raised) =>
           /\ last.status = 500
           /\ last.body = None
           /\ last.fault \in {"none", "query", "commit"} => tasks = last.before

\* The constraint violation at commit: an update setting title to null on a
\* stored task, with no other fault.
C17_Witness ==
    /\ last.op = "update"
    /\ last.fault = "none"
    /\ last.payload.title = Null
    /\ last.task_id \in Ids(last.before)
    /\ last.commit = "failed"

\* C18: the triple a statistics request returns has pending >= 0 and
\* completed <= total, and is the true summary of the store at some instant
\* between its first query and its return.
C18_StatisticsFromOneInstant ==
    (last.op = "stats" /\ run.k = "returned") =>
        /\ last.body.pending >= 0
        /\ last.body.completed <= last.body.total
        /\ last.body \in run.seen

\* position of event e in the log of commits and returns, 0 when absent
Pos(e) ==
    IF \E i \in 1..Len(run.order) : run.order[i] = e
    THEN CHOOSE i \in 1..Len(run.order) : run.order[i] = e
    ELSE 0

\* the request whose commit is the later one in the log
LastCommitter == IF Pos(<<"A", "commit">>) > Pos(<<"B", "commit">>) THEN "A" ELSE "B"

\* C19: after two concurrent updates of one task have both returned 200,
\* a field supplied by one request only holds that request's value and a
\* field supplied by both holds the value of the request that committed
\* last.
C19_NoLostUpdate ==
    (/\ run.k = "upd"
     /\ \A x \in Clients : run[x].op = "update" /\ run[x].pc = "done" /\ run[x].status = 200) =>
        LET row == get_by_id(tasks, run.A.task_id)
            sup(f) == {x \in Clients : f \in UpdateKeys(run[x].payload)}
        IN \A f \in {"title", "description", "completed"} :
               /\ sup(f) # {} => \E x \in sup(f) : row[f] = run[x].payload[f]
               /\ \A x \in Clients : sup(f) = {x} => row[f] = run[x].payload[f]
               /\ sup(f) = Clients => row[f] = run[LastCommitter].payload[f]

\* C20: with an update A and a delete B of one task in flight, the row is
\* stored until the delete commits and never after; the delete returns 200;
\* the update returns 200 only if it returned before the delete committed,
\* 404 only if it found no row, and a server error otherwise.
C20_DeletedRowStaysDeleted ==
    (run.k = "upd" /\ run.B.op = "delete") =>
        LET A == run.A
            B == run.B
            deleted == Pos(<<"B", "commit">>) > 0
        IN /\ deleted <=> get_by_id(tasks, A.task_id) = None
           /\ B.pc = "done" => B.status = 200 /\ deleted
           /\ A.pc = "done" =>
                  /\ A.status \in {200, 404, 500}
                  /\ (A.status = 200 /\ deleted) =>
                         Pos(<<"A", "return">>) < Pos(<<"B", "commit">>)
                  /\ A.status = 200 => A.body.id = A.task_id
                  /\ A.status = 404 => A.db_task = None /\ deleted

\* The update loaded the row and changed a column, the delete committed,
\* and the update then ended as a server error.
C20_Witness ==
    /\ run.k = "upd" /\ run.B.op = "delete"
    /\ run.A.pc = "done" /\ run.B.pc = "done"
    /\ run.A.db_task # None
    /\ run.A.payload.completed # Unset
    /\ run.A.payload.completed # run.A.db_task.completed
    /\ Pos(<<"A", "commit">>) = 0
    /\ run.A.status = 500

\* C21: an id that belonged to a deleted task is never assigned again: no
\* stored task has a deleted id, a create never returns one, and a read of
\* a deleted id answers 404.
C21_DeletedIdNeverReused ==
    /\ Ids(tasks) \cap run.deleted = {}
    /\ (last.op = "create" /\ last.status = 201) => last.body.id \notin run.deleted
    /\ (last.op = "read" /\ last.task_id \in run.deleted) => last.status = 404

====
